---- MODULE Spec2Model ----
(***************************************************************************)
(* The middleware layer of shrina-proxy (src/src/middleware.ts): the       *)
(* request/response logger, the hono-to-express adapter that runs the CORS *)
(* evaluator, and the global error handler, as a state machine over the    *)
(* requests in flight; the header filter of the logger as a function       *)
(* applied to header sets; and the local server's shutdown on a signal     *)
(* (src/unnamed/part_000).                                                 *)
(*                                                                         *)
(* A JavaScript string is a sequence of text pieces (its concatenation is  *)
(* the string), so that substring and join are computed; the empty         *)
(* sequence is the empty string.  A header set is a function from the      *)
(* (lower-cased) header names that are present to their values.            *)
(***************************************************************************)
EXTENDS Integers, Sequences, FiniteSets, TLC

VARIABLES cfg, req, res, pc, ctx, log, srv, flt

vars == <<cfg, req, res, pc, ctx, log, srv, flt>>

(* ------------------------------------------------------------------ *)
(* Bounds and input domains                                            *)
(* ------------------------------------------------------------------ *)

\* Request slots; a specification chooses which of them carry a request.
Reqs == {1, 2}

\* res.end is invoked at most this many times by a route handler.
MaxEndCalls == 2

EmptyStr == << >>

Star == <<"*">>
\* Two origins: one the configuration may allow, one it never allows.
OriginA == <<"https://a.example">>
OriginEvil == <<"https://evil.example">>

\* PROXY.ALLOWED_ORIGINS as the configuration can set it.
AllowedOriginsChoices == {{Star}, {OriginA}}

Methods == {"GET", "OPTIONS"}

\* The Origin header of a request: absent, allowed by the list, or not.
OriginChoices == {{}, {OriginA}, {OriginEvil}}

\* The inbound x-request-id header: absent, empty, or abc123.
RequestIdChoices == {{}, {EmptyStr}, {<<"a", "b", "c", "1", "2", "3">>}}

\* Math.random() as the base-36 digits of its fraction: no digit is 0.
Randoms == {<< >>, <<"i">>, <<"4", "f">>}

(* ------------------------------------------------------------------ *)
(* JavaScript values                                                   *)
(* ------------------------------------------------------------------ *)

\* a || b on strings: undefined and '' are both falsy.
OrElse(a, b) == IF a # EmptyStr THEN a ELSE b

\* a || b on numbers: undefined is modelled as 0, which is falsy as well.
OrElseNum(a, b) == IF a # 0 THEN a ELSE b

\* The empty header set.
NoHeaders == [k \in {} |-> EmptyStr]

\* h[name], undefined (here the falsy empty string) when absent.
Get(h, name) == IF name \in DOMAIN h THEN h[name] ELSE EmptyStr

SetHeaderIn(h, name, value) ==
  [k \in DOMAIN h \cup {name} |-> IF k = name THEN value ELSE h[k]]

\* String.prototype.toLowerCase on the header names the program uses.
Lower(name) ==
  CASE name = "Origin" -> "origin"
    [] name = "Vary" -> "vary"
    [] name = "X-Request-Id" -> "x-request-id"
    [] name = "Content-Type" -> "content-type"
    [] name = "Content-Length" -> "content-length"
    [] name = "Access-Control-Allow-Origin" -> "access-control-allow-origin"
    [] name = "Access-Control-Allow-Credentials" -> "access-control-allow-credentials"
    [] name = "Access-Control-Expose-Headers" -> "access-control-expose-headers"
    [] name = "Access-Control-Max-Age" -> "access-control-max-age"
    [] name = "Access-Control-Allow-Methods" -> "access-control-allow-methods"
    [] name = "Access-Control-Allow-Headers" -> "access-control-allow-headers"
    [] name = "Access-Control-Request-Headers" -> "access-control-request-headers"
    [] name = "Authorization" -> "authorization"
    [] name = "Set-Cookie" -> "set-cookie"
    [] name = "COOKIE" -> "cookie"
    [] OTHER -> name

\* Number.prototype.toString(36) of a Math.random() result: "0" for 0,
\* otherwise "0." followed by the fraction's digits.
ToString36(x) == IF x = << >> THEN <<"0">> ELSE <<"0", ".">> \o x

\* String.prototype.substring(start) (start counted from 0).
Substring(s, start) ==
  IF start >= Len(s) THEN EmptyStr ELSE SubSeq(s, start + 1, Len(s))

(* ------------------------------------------------------------------ *)
(* Failures (the values a stage can raise or pass to next)             *)
(* ------------------------------------------------------------------ *)

\* A failure value as errorHandler reads it.  kind: "error" for an
\* instance of Error, "object" for a plain object, "string" for a thrown
\* string, "none" for no failure.  An absent (undefined) numeric property
\* is 0 and an absent string property is "": errorHandler reads them only
\* through ||, under which absent and falsy act alike.
Failure(kind, status, statusCode, message, name, stack) ==
  [kind |-> kind, status |-> status, statusCode |-> statusCode,
   message |-> message, name |-> name, stack |-> stack]

\* No failure: what next() passes on when called without an argument.
NoError == Failure("none", 0, 0, "", "", "")

\* new Error('boom'): no status hint.
PlainError == Failure("error", 0, 0, "boom", "Error", "Error: boom at handler")
\* An error carrying status 404 and message 'Not Found'.
NotFoundError ==
  Failure("error", 404, 0, "Not Found", "NotFoundError",
          "NotFoundError: Not Found at route")
\* An error with only statusCode and no message (new Error() has message '').
UnavailableError == Failure("error", 0, 503, "", "Error", "Error at upstream")
\* A thrown plain object with both hints and no message or stack.
HintObject == Failure("object", 400, 410, "", "", "")
\* A thrown string: every property read on it is undefined.
StringFailure == Failure("string", 0, 0, "", "", "")

\* What a route handler can raise or pass to next.
Failures ==
  {PlainError, NotFoundError, UnavailableError, HintObject, StringFailure}

\* What a logger call raises when the logger is at fault.
LoggerFailure ==
  Failure("error", 0, 0, "logger failed", "Error",
          "Error: logger failed at logger")

\* What the policy evaluator can raise: an Error without status hints, or
\* one that encodes a client-facing status.
EvaluatorFailures == {PlainError, NotFoundError}

(* ------------------------------------------------------------------ *)
(* The process-wide logger and the response object                     *)
(* ------------------------------------------------------------------ *)

\* One emitted log event.  by is the request whose handling emitted it;
\* a 'Request error' event carries no requestId and no status.
LogEvent(r, type, level, requestId, status) ==
  [by |-> r, type |-> type, level |-> level, requestId |-> requestId,
   status |-> status]

\* logger.debug / info / warn / error: append to the sink.
Emit(sink, event) == Append(sink, event)

NoBody == [kind |-> "none"]
HandlerBody == [kind |-> "data"]

\* A fresh express response: status 200, nothing written, res.end not
\* yet replaced.  endCalls counts the invocations of the original end;
\* wireStatus is the status line sent with the headers (0: none sent);
\* endedAt is the number of log events emitted before the original end
\* finished the response.
FreshResponse ==
  [statusCode |-> 200, headers |-> NoHeaders, headersSent |-> FALSE,
   finished |-> FALSE, body |-> NoBody, endPatched |-> FALSE,
   endCalls |-> 0, wireStatus |-> 0, finalizedBy |-> "none", endedAt |-> 0]

\* res.setHeader(name, value): header names are case-insensitive.
SetHeader(rs, name, value) ==
  [rs EXCEPT !.headers = SetHeaderIn(rs.headers, Lower(name), value)]

\* res.status(code): express assigns res.statusCode.
SetStatus(rs, code) == [rs EXCEPT !.statusCode = code]

\* The original res.end of the http response: the first call sends the
\* status line and headers with the body and finishes the response; a call
\* on a finished response writes nothing more.
OriginalEnd(rs, body, who, at) ==
  IF rs.finished
    THEN [rs EXCEPT !.endCalls = @ + 1]
    ELSE [rs EXCEPT !.endCalls = @ + 1, !.finished = TRUE,
                    !.headersSent = TRUE, !.body = body,
                    !.wireStatus = rs.statusCode, !.finalizedBy = who,
                    !.endedAt = at]

\* Faulty variant of Severity: the thresholds are exclusive.
SeverityExclusive(statusCode) ==
  IF statusCode > 500 THEN "error"
  ELSE IF statusCode > 400 THEN "warn"
  ELSE "info"

\* The severity of the terminal event for a status code.
Severity(statusCode) ==
  IF statusCode >= 500 THEN "error"
  ELSE IF statusCode >= 400 THEN "warn"
  ELSE "info"

\* The request id of the latest 'request' event in the sink.
RECURSIVE LastRequestId(_)
LastRequestId(sink) ==
  IF sink = << >> THEN EmptyStr
  ELSE IF sink[Len(sink)].type = "request" THEN sink[Len(sink)].requestId
  ELSE LastRequestId(SubSeq(sink, 1, Len(sink) - 1))

\* Faulty variant of ResEnd: the request id is kept in one place for all
\* requests, so the hook reports the id of the request that arrived last.
ResEndSharedId(r, rs, sink, requestId, body, who) ==
  LET emitted ==
        IF rs.endPatched
          THEN Emit(sink, LogEvent(r, "response", Severity(rs.statusCode),
                                   LastRequestId(sink), rs.statusCode))
          ELSE sink
  IN [res |-> OriginalEnd(rs, body, who, Len(emitted)), log |-> emitted]

\* Faulty variant of ResEnd: the hook sits on the body-writing path, so an
\* end without a body (the preflight's res.status(204).end()) is not logged.
ResEndHookOnBody(r, rs, sink, requestId, body, who) ==
  LET emitted ==
        IF rs.endPatched /\ body.kind # "none"
          THEN Emit(sink, LogEvent(r, "response", Severity(rs.statusCode),
                                   requestId, rs.statusCode))
          ELSE sink
  IN [res |-> OriginalEnd(rs, body, who, Len(emitted)), log |-> emitted]

\* Faulty variant of ResEnd: the original end is applied first and the
\* 'response' event emitted afterwards.
ResEndLogsAfter(r, rs, sink, requestId, body, who) ==
  [res |-> OriginalEnd(rs, body, who, Len(sink)),
   log |-> IF rs.endPatched
             THEN Emit(sink, LogEvent(r, "response", Severity(rs.statusCode),
                                      requestId, rs.statusCode))
             ELSE sink]

\* The function requestLogger installs as res.end: emit the 'response'
\* event at the severity of res.statusCode, then apply the original end.
\* An unpatched response (requestLogger has not run) ends directly.
\* The result is the response and the sink after the call.
ResEnd(r, rs, sink, requestId, body, who) ==
  LET emitted ==
        IF rs.endPatched
          THEN Emit(sink, LogEvent(r, "response", Severity(rs.statusCode),
                                   requestId, rs.statusCode))
          ELSE sink
  IN [res |-> OriginalEnd(rs, body, who, Len(emitted)), log |-> emitted]

(* ------------------------------------------------------------------ *)
(* requestLogger                                                       *)
(* ------------------------------------------------------------------ *)

\* req.headers['x-request-id'] || Math.random().toString(36).substring(2)
ResolveRequestId(headers, random) ==
  OrElse(Get(headers, "x-request-id"), Substring(ToString36(random), 2))

\* The per-request closure state and what the stages have done so far.
\*   requestId    the id requestLogger resolved
\*   shimHeaders  c.res.headers of the adapter's shim
\*   evaluated    "no" | "returned" | "threw"
\*   result       whether the evaluator's result is a Response
\*   thrown       the failure the evaluator raised
\*   nextCalls    the arguments of the adapter's calls of next, in order
\*   err          the failure express hands to errorHandler
\*   handled      errorHandler has run for this request
\*   threw        errorHandler raised an exception
\*   logFault     where a logger call of requestLogger raised:
\*                "no" | "request" | "response"
FreshContext ==
  [requestId |-> EmptyStr, shimHeaders |-> NoHeaders, evaluated |-> "no",
   result |-> FALSE, thrown |-> NoError, nextCalls |-> << >>,
   err |-> NoError, handled |-> FALSE, threw |-> FALSE, logFault |-> "no"]

\* requestLogger(req, res, next): resolve the id, set the response header,
\* emit the 'request' event, replace res.end, call next().
requestLogger(r) ==
  /\ pc[r] = "requestLogger"
  /\ \E random \in Randoms :
       LET requestId == ResolveRequestId(req[r].headers, random)
       IN /\ ctx' = [ctx EXCEPT ![r].requestId = requestId]
          /\ res' = [res EXCEPT ![r] =
                       [SetHeader(res[r], "x-request-id", requestId)
                          EXCEPT !.endPatched = TRUE]]
          /\ log' = Emit(log, LogEvent(r, "request", "debug", requestId, 0))
  /\ pc' = [pc EXCEPT ![r] = "cors"]
  /\ UNCHANGED <<srv, flt, cfg, req>>

(* ------------------------------------------------------------------ *)
(* The CORS evaluator (hono/cors) as corsMiddleware configures it      *)
(* ------------------------------------------------------------------ *)

\* maxAge: 86400
MaxAge == 86400

allowMethods ==
  << <<"GET">>, <<"POST">>, <<"PUT">>, <<"DELETE">>, <<"OPTIONS">>, <<"PATCH">> >>
allowHeaders ==
  << <<"Origin">>, <<"X-Requested-With">>, <<"Content-Type">>, <<"Accept">>,
     <<"Authorization">>, <<"Range">> >>
exposeHeaders ==
  << <<"Content-Length">>, <<"Content-Range">>, <<"Content-Type">>,
     <<"Accept-Ranges">> >>

\* Array.prototype.join(sep)
RECURSIVE Join(_, _)
Join(list, sep) ==
  IF list = << >> THEN EmptyStr
  ELSE IF Len(list) = 1 THEN Head(list)
  ELSE Head(list) \o sep \o Join(Tail(list), sep)

Digit(d) == <<"0", "1", "2", "3", "4", "5", "6", "7", "8", "9">>[d + 1]

\* Number.prototype.toString() of a non-negative integer.
RECURSIVE NumToString(_)
NumToString(n) ==
  IF n < 10 THEN <<Digit(n)>> ELSE NumToString(n \div 10) \o <<Digit(n % 10)>>

\* Faulty variant of CorsOrigin: the wildcard is passed whatever the list.
CorsOriginAlwaysStar(allowedOrigins) == [star |-> TRUE, list |-> {}]

\* origin: PROXY.ALLOWED_ORIGINS.includes('*') ? '*' : PROXY.ALLOWED_ORIGINS
\* star: the option is the string '*'; list: the option is this list.
CorsOrigin(allowedOrigins) ==
  IF Star \in allowedOrigins
    THEN [star |-> TRUE, list |-> {}]
    ELSE [star |-> FALSE, list |-> allowedOrigins]

\* hono/cors findAllowOrigin: '*' for the wildcard, the origin itself when
\* the list includes it, otherwise null (here the falsy empty string).
findAllowOrigin(optsOrigin, origin) ==
  IF optsOrigin.star THEN Star
  ELSE IF origin \in optsOrigin.list THEN origin
  ELSE EmptyStr

\* One call the evaluator makes on the shim.
Call(surface, name, value) ==
  [surface |-> surface, name |-> name, value |-> value]

\* c.req.header(name) of the shim: req.headers[name.toLowerCase()]
ShimReqHeader(rq, name) == Get(rq.headers, Lower(name))

\* The calls hono/cors makes on its context for one request, in order: it
\* writes the policy headers with c.res.headers.set, answers OPTIONS with a
\* Response, and otherwise awaits next() and then adds Vary with c.header
\* when the origin option is not '*'.
honoCorsCalls(allowedOrigins, rq) ==
  LET optsOrigin == CorsOrigin(allowedOrigins)
      allowOrigin ==
        findAllowOrigin(optsOrigin, OrElse(ShimReqHeader(rq, "origin"), EmptyStr))
      set(name, value) == <<Call("c.res.headers.set", name, value)>>
  IN (IF allowOrigin # EmptyStr
        THEN set("Access-Control-Allow-Origin", allowOrigin) ELSE << >>)
     \o set("Access-Control-Allow-Credentials", <<"true">>)
     \o set("Access-Control-Expose-Headers", Join(exposeHeaders, <<",">>))
     \o (IF rq.method = "OPTIONS"
           THEN (IF ~optsOrigin.star THEN set("Vary", <<"Origin">>) ELSE << >>)
                \o set("Access-Control-Max-Age", NumToString(MaxAge))
                \o set("Access-Control-Allow-Methods", Join(allowMethods, <<",">>))
                \o set("Access-Control-Allow-Headers", Join(allowHeaders, <<",">>))
                \o <<Call("c.res.headers.append", "Vary",
                          <<"Access-Control-Request-Headers">>)>>
                \o <<Call("c.res.headers.delete", "Content-Length", EmptyStr),
                     Call("c.res.headers.delete", "Content-Type", EmptyStr)>>
           ELSE (IF ~optsOrigin.star
                   THEN <<Call("c.header", "Vary", <<"Origin">>)>> ELSE << >>))

\* Whether hono/cors returns a Response (on OPTIONS) or undefined.
honoCorsResult(rq) == rq.method = "OPTIONS"

(* ------------------------------------------------------------------ *)
(* honoAdapter                                                         *)
(* ------------------------------------------------------------------ *)

\* The shim c of one request: the real response it forwards to and its
\* own c.res.headers.
Shim(rs, shimHeaders) == [res |-> rs, headers |-> shimHeaders]

\* Headers.append: a new name is set, an existing one gets ', value'.
HeadersAppend(h, name, value) ==
  IF Lower(name) \in DOMAIN h
    THEN SetHeaderIn(h, Lower(name), h[Lower(name)] \o <<", ">> \o value)
    ELSE SetHeaderIn(h, Lower(name), value)

HeadersDelete(h, name) == [k \in DOMAIN h \ {Lower(name)} |-> h[k]]

\* One evaluator call against the shim: c.header forwards to
\* res.setHeader of the real response; c.res.headers is the Headers object
\* the shim was built with, which nothing connects to the real response.
ShimCall(c, call) ==
  CASE call.surface = "c.header" ->
         [c EXCEPT !.res = SetHeader(c.res, call.name, call.value)]
    [] call.surface = "c.res.headers.set" ->
         [c EXCEPT !.headers = SetHeaderIn(c.headers, Lower(call.name), call.value)]
    [] call.surface = "c.res.headers.append" ->
         [c EXCEPT !.headers = HeadersAppend(c.headers, call.name, call.value)]
    [] call.surface = "c.res.headers.delete" ->
         [c EXCEPT !.headers = HeadersDelete(c.headers, call.name)]

RECURSIVE ShimCalls(_, _)
ShimCalls(c, calls) ==
  IF calls = << >> THEN c ELSE ShimCalls(ShimCall(c, Head(calls)), Tail(calls))

\* Faulty variant of AdapterOutcome: the catch block swallows the failure
\* and continues with next().
AdapterOutcomeSwallow(method, evaluated, result) ==
  IF evaluated # "threw" /\ result /\ method = "OPTIONS" THEN "preflight"
  ELSE "continue"

\* What the adapter does once the evaluator has settled:
\*   "forward"   next(error)                the evaluator raised
\*   "preflight" res.status(204).end()      a result, and the method is OPTIONS
\*   "continue"  next()                     otherwise
AdapterOutcome(method, evaluated, result) ==
  IF evaluated = "threw" THEN "forward"
  ELSE IF result /\ method = "OPTIONS" THEN "preflight"
  ELSE "continue"

\* express's next(arg) from a stage before the routes: a truthy argument
\* goes to the error handler, none (or a falsy one) to the next stage.
Dispatch(arg, nextStage) ==
  IF arg.kind # "none" THEN "errorHandler" ELSE nextStage

\* The adapter up to its await: build the shim and invoke the evaluator,
\* which either raises (before it has written anything) or makes its calls
\* and settles with its result.
honoAdapterCall(r) ==
  /\ pc[r] = "cors"
  /\ \/ \E e \in EvaluatorFailures :
          ctx' = [ctx EXCEPT ![r].evaluated = "threw", ![r].thrown = e]
          /\ res' = res
     \/ LET c == ShimCalls(Shim(res[r], NoHeaders),
                           honoCorsCalls(cfg.allowedOrigins, req[r]))
        IN /\ ctx' = [ctx EXCEPT ![r].evaluated = "returned",
                                 ![r].result = honoCorsResult(req[r]),
                                 ![r].shimHeaders = c.headers]
           /\ res' = [res EXCEPT ![r] = c.res]
  /\ pc' = [pc EXCEPT ![r] = "corsAwait"]
  /\ UNCHANGED <<srv, flt, cfg, req, log>>

\* The adapter after its await: forward the failure, answer the preflight
\* or continue.  Nothing is copied from the evaluator's result or from
\* c.res.headers onto the real response.
honoAdapterResume(r) ==
  /\ pc[r] = "corsAwait"
  /\ LET outcome == AdapterOutcome(req[r].method, ctx[r].evaluated, ctx[r].result)
         rs == res[r]
     IN CASE outcome = "forward" ->
               /\ ctx' = [ctx EXCEPT ![r].nextCalls = Append(@, ctx[r].thrown),
                                     ![r].err = ctx[r].thrown]
               /\ pc' = [pc EXCEPT ![r] = Dispatch(ctx[r].thrown, "route")]
               /\ res' = [res EXCEPT ![r] = rs]
               /\ log' = log
          [] outcome = "preflight" ->
               LET ended == ResEnd(r, SetStatus(rs, 204), log, ctx[r].requestId,
                                   NoBody, "preflight")
               IN /\ res' = [res EXCEPT ![r] = ended.res]
                  /\ log' = ended.log
                  /\ pc' = [pc EXCEPT ![r] = "done"]
                  /\ ctx' = ctx
          [] outcome = "continue" ->
               /\ ctx' = [ctx EXCEPT ![r].nextCalls = Append(@, NoError)]
               /\ pc' = [pc EXCEPT ![r] = Dispatch(NoError, "route")]
               /\ res' = [res EXCEPT ![r] = rs]
               /\ log' = log
  /\ UNCHANGED <<srv, flt, cfg, req>>

\* The adapter after its await when the downstream continuation raises
\* synchronously from inside next(): next() is called within the try
\* block, so the catch block calls next(error) as well.
honoAdapterResumeNextRaises(r) ==
  /\ pc[r] = "corsAwait"
  /\ AdapterOutcome(req[r].method, ctx[r].evaluated, ctx[r].result) = "continue"
  /\ \E e \in EvaluatorFailures :
       /\ ctx' = [ctx EXCEPT ![r].nextCalls = Append(Append(@, NoError), e),
                             ![r].err = e]
       /\ pc' = [pc EXCEPT ![r] = Dispatch(e, "route")]
  /\ UNCHANGED <<srv, flt, cfg, req, res, log>>

(* ------------------------------------------------------------------ *)
(* errorHandler                                                        *)
(* ------------------------------------------------------------------ *)

\* Faulty variant of ResolveStatus: statusCode is consulted before status.
ResolveStatusCodeFirst(err) ==
  OrElseNum(OrElseNum(err.statusCode, err.status), 500)

\* const statusCode = err.status || err.statusCode || 500
ResolveStatus(err) == OrElseNum(OrElseNum(err.status, err.statusCode), 500)

\* const errorMessage = err.message || 'Internal Server Error'
ResolveMessage(err) ==
  IF err.message # "" THEN err.message ELSE "Internal Server Error"

\* const isProd = SERVER.IS_PRODUCTION || process.env.NODE_ENV === 'production'
isProd(c) == c.isProduction \/ c.nodeEnvProduction

\* if (!SERVER.IS_PRODUCTION) errorDetails = { name, stack }
IncludeDetails(c) == ~c.isProduction

\* The envelope as res.json serializes it: details is there only when
\* errorDetails was assigned, and JSON.stringify drops its undefined
\* (here "") members.
Envelope(c, err) ==
  [kind |-> "envelope",
   code |-> ResolveStatus(err),
   message |-> ResolveMessage(err),
   hasDetails |-> IncludeDetails(c),
   detailsName |-> IF IncludeDetails(c) THEN err.name ELSE "",
   detailsStack |-> IF IncludeDetails(c) THEN err.stack ELSE "",
   success |-> FALSE]

\* res.json(body) of express on a response whose headers were sent: it
\* sets Content-Type through res.setHeader, which raises
\* ERR_HTTP_HEADERS_SENT.
JsonRaises(rs) == rs.headersSent

\* errorHandler(err, req, res, next): log 'Request error' at error
\* severity, then res.status(statusCode).json(envelope); res.json ends the
\* response through res.end.
errorHandler(r) ==
  /\ pc[r] = "errorHandler"
  /\ LET err == ctx[r].err
         logged == Emit(log, LogEvent(r, "error", "error", EmptyStr, 0))
         rs == SetStatus(res[r], ResolveStatus(err))
     IN IF JsonRaises(rs)
          THEN /\ res' = [res EXCEPT ![r] = rs]
               /\ log' = logged
               /\ ctx' = [ctx EXCEPT ![r].handled = TRUE, ![r].threw = TRUE]
          ELSE LET ended ==
                     ResEnd(r, SetHeader(rs, "Content-Type",
                                         <<"application/json; charset=utf-8">>),
                            logged, ctx[r].requestId, Envelope(cfg, err),
                            "errorHandler")
               IN /\ res' = [res EXCEPT ![r] = ended.res]
                  /\ log' = ended.log
                  /\ ctx' = [ctx EXCEPT ![r].handled = TRUE]
  /\ pc' = [pc EXCEPT ![r] = "done"]
  /\ UNCHANGED <<srv, flt, cfg, req>>

(* ------------------------------------------------------------------ *)
(* The route handlers behind the middleware (external collaborators)   *)
(* ------------------------------------------------------------------ *)

\* The statuses a route handler answers with.
HandlerStatuses == {200, 404, 500}

\* A handler answers: res.status(s) and a body, finished through res.end.
handlerRespond(r) ==
  /\ pc[r] = "route"
  /\ \E s \in HandlerStatuses :
       LET ended == ResEnd(r, SetStatus(res[r], s), log, ctx[r].requestId,
                           HandlerBody, "handler")
       IN /\ res' = [res EXCEPT ![r] = ended.res]
          /\ log' = ended.log
  /\ pc' = [pc EXCEPT ![r] = "responded"]
  /\ UNCHANGED <<srv, flt, cfg, req, ctx>>

\* A handler fails before it has answered: next(e), or a throw that
\* express turns into next(e).
handlerFail(r) ==
  /\ pc[r] = "route"
  /\ \E e \in Failures :
       /\ ctx' = [ctx EXCEPT ![r].err = e]
       /\ pc' = [pc EXCEPT ![r] = Dispatch(e, "route")]
  /\ UNCHANGED <<srv, flt, cfg, req, res, log>>

\* A handler that has answered calls res.end once more.
handlerEndAgain(r) ==
  /\ pc[r] = "responded"
  /\ res[r].endCalls < MaxEndCalls
  /\ LET ended == ResEnd(r, res[r], log, ctx[r].requestId, NoBody, "handler")
     IN /\ res' = [res EXCEPT ![r] = ended.res]
        /\ log' = ended.log
  /\ UNCHANGED <<srv, flt, cfg, req, pc, ctx>>

\* A handler that has answered fails afterwards: the failure is forwarded
\* with the response already finalized.
handlerFailAfterEnd(r) ==
  /\ pc[r] = "responded"
  /\ \E e \in Failures :
       /\ ctx' = [ctx EXCEPT ![r].err = e]
       /\ pc' = [pc EXCEPT ![r] = Dispatch(e, "responded")]
  /\ UNCHANGED <<srv, flt, cfg, req, res, log>>

(* ------------------------------------------------------------------ *)
(* requestLogger with a logger that raises                             *)
(* ------------------------------------------------------------------ *)

\* requestLogger when logger.debug raises: the id is resolved and the
\* header set, then the exception leaves requestLogger before res.end is
\* replaced and before next(); express catches it and forwards it as the
\* request's failure.
requestLoggerLogFault(r) ==
  /\ pc[r] = "requestLogger"
  /\ \E random \in Randoms :
       LET requestId == ResolveRequestId(req[r].headers, random)
       IN /\ ctx' = [ctx EXCEPT ![r].requestId = requestId,
                                ![r].logFault = "request",
                                ![r].err = LoggerFailure]
          /\ res' = [res EXCEPT ![r] =
                       SetHeader(res[r], "x-request-id", requestId)]
  /\ pc' = [pc EXCEPT ![r] = Dispatch(LoggerFailure, "requestLogger")]
  /\ UNCHANGED <<srv, flt, cfg, req, log>>

\* A handler answers through the replaced res.end and the logger call in
\* it raises: the original end is not applied, the exception leaves
\* res.end and the handler, and express forwards it as the request's
\* failure.
handlerRespondLogFault(r) ==
  /\ pc[r] = "route"
  /\ res[r].endPatched
  /\ \E s \in HandlerStatuses :
       res' = [res EXCEPT ![r] = SetStatus(res[r], s)]
  /\ ctx' = [ctx EXCEPT ![r].logFault = "response", ![r].err = LoggerFailure]
  /\ pc' = [pc EXCEPT ![r] = Dispatch(LoggerFailure, "route")]
  /\ UNCHANGED <<srv, flt, cfg, req, log>>

(* ------------------------------------------------------------------ *)
(* The state machine                                                   *)
(* ------------------------------------------------------------------ *)

\* A request with the given method and optional headers.
Request(method, origin, requestId) ==
  [method |-> method,
   headers |->
     [k \in {n \in {"origin"} : origin # {}}
            \cup {n \in {"x-request-id"} : requestId # {}} |->
        IF k = "origin" THEN CHOOSE v \in origin : TRUE
        ELSE CHOOSE v \in requestId : TRUE]]

Requests ==
  {Request(m, o, x) : m \in Methods, o \in OriginChoices, x \in RequestIdChoices}

\* The configuration loaded at startup.
Configs ==
  [isProduction : BOOLEAN, nodeEnvProduction : BOOLEAN,
   allowedOrigins : AllowedOriginsChoices]

\* The requests in `live` have arrived and enter the pipeline at
\* requestLogger; the other slots stay empty.
InitWith(live) ==
  /\ cfg \in Configs
  /\ req \in [Reqs -> Requests]
  /\ \A r \in Reqs \ live : req[r] = Request("GET", {}, {})
  /\ res = [r \in Reqs |-> FreshResponse]
  /\ pc = [r \in Reqs |-> IF r \in live THEN "requestLogger" ELSE "absent"]
  /\ ctx = [r \in Reqs |-> FreshContext]
  /\ log = << >>

(* ------------------------------------------------------------------ *)
(* getFilteredHeaders                                                  *)
(* ------------------------------------------------------------------ *)

\* Headers in one header set given to the filter.
MaxFilterHeaders == 3

\* A header value of IncomingHttpHeaders: string | string[] | undefined.
\* Here a string is the sequence of its characters, and v holds the
\* strings of the value: one for a string, the elements of an array, none
\* for undefined.
Str(text) == [t |-> "string", v |-> <<text>>]
Arr(list) == [t |-> "array", v |-> list]
Undefined == [t |-> "undefined", v |-> << >>]

\* The characters of a string value.
Text(value) == value.v[1]

\* '[REDACTED]'
Redacted == <<"[", "R", "E", "D", "A", "C", "T", "E", "D", "]">>

sensitiveHeaders == {"authorization", "cookie", "set-cookie"}

\* Array.isArray(value) ? value.join(', ') : value || ''
JoinedOrEmpty(value) ==
  CASE value.t = "array" -> Join(value.v, <<",", " ">>)
    [] value.t = "string" -> Text(value)
    [] value.t = "undefined" -> EmptyStr

\* Faulty variant of getFilteredHeaders: the name is compared as it is
\* spelled, without toLowerCase.
getFilteredHeadersCaseSensitive(headers) ==
  [key \in DOMAIN headers |->
     IF key \in sensitiveHeaders
       THEN Str(Redacted)
       ELSE Str(JoinedOrEmpty(headers[key]))]

\* Faulty variant of getFilteredHeaders: every value is reported as an
\* array literal in brackets, strings included.
getFilteredHeadersBracketed(headers) ==
  [key \in DOMAIN headers |->
     IF Lower(key) \in sensitiveHeaders
       THEN Str(Redacted)
       ELSE Str(<<"[">> \o JoinedOrEmpty(headers[key]) \o <<"]">>)]

\* getFilteredHeaders: the same names, '[REDACTED]' for the sensitive
\* ones, every other value as one string.
getFilteredHeaders(headers) ==
  [key \in DOMAIN headers |->
     IF Lower(key) \in sensitiveHeaders
       THEN Str(Redacted)
       ELSE Str(JoinedOrEmpty(headers[key]))]

\* The header filter applied to a header set and to its own output.
\*   stage   "idle" | "input" | "once" | "twice"
\*   input   the header set given
\*   output  getFilteredHeaders(input)
\*   again   getFilteredHeaders(output)
Filter(stage, input) ==
  [stage |-> stage, input |-> input, output |-> NoHeaders, again |-> NoHeaders]

\* The header filter is not exercised.
FilterIdle == Filter("idle", NoHeaders)

FilterNames ==
  {"authorization", "Authorization", "COOKIE", "Set-Cookie", "accept", "x-tag"}

FilterValues ==
  {Undefined, Str(EmptyStr), Str(<<"a">>), Str(Redacted),
   Arr(<< >>), Arr(<< <<"a">> >>), Arr(<< <<"a">>, <<"b">> >>)}

\* The header sets of at most MaxFilterHeaders headers.
HeaderSets ==
  UNION {[names -> FilterValues] :
           names \in {n \in SUBSET FilterNames :
                        Cardinality(n) <= MaxFilterHeaders}}

\* getFilteredHeaders is applied to the header set.
getFilteredHeadersCall ==
  /\ flt.stage = "input"
  /\ flt' = [flt EXCEPT !.stage = "once",
                        !.output = getFilteredHeaders(flt.input)]
  /\ UNCHANGED <<cfg, req, res, pc, ctx, log, srv>>

\* getFilteredHeaders is applied to its own output.
getFilteredHeadersAgain ==
  /\ flt.stage = "once"
  /\ flt' = [flt EXCEPT !.stage = "twice",
                        !.again = getFilteredHeaders(flt.output)]
  /\ UNCHANGED <<cfg, req, res, pc, ctx, log, srv>>

(* ------------------------------------------------------------------ *)
(* The local server and its shutdown on SIGINT / SIGTERM               *)
(* ------------------------------------------------------------------ *)

\* Connections the local server serves at once.
MaxConnections == 2
\* Signals delivered to the process.
MaxSignals == 2
\* The latest time (in seconds) at which a signal is delivered.
MaxSignalClock == 2

\* setTimeout(..., 10000): the grace period, in seconds.
GracePeriod == 10

Signals == {"SIGINT", "SIGTERM"}

\* The process and its http server.
\*   listening       the server holds its listening socket
\*   connections     open connections, each with a request in flight
\*   closeListeners  callbacks server.close registered for 'close'
\*   timers          the deadlines of the pending force-exit timers
\*   clock           seconds since the server started
\*   signals         the signals handled so far
\*   signalledAt     the time of the first signal
\*   exited, exitCode  process.exit(exitCode) was called
Server(listening) ==
  [listening |-> listening, connections |-> 0, closeListeners |-> 0,
   timers |-> {}, clock |-> 0, signals |-> << >>, signalledAt |-> 0,
   exited |-> FALSE, exitCode |-> 0]

\* No local server: the state of srv while the pipeline is examined.
ServerIdle == Server(FALSE)

\* After app.listen(PORT) in local development mode.
ServerListening == Server(TRUE)

\* server.close(callback): release the listening socket and register the
\* callback for 'close'.
ServerClose(s) ==
  [s EXCEPT !.listening = FALSE, !.closeListeners = @ + 1]

\* 'close' is emitted (on the next tick, before any timer) once the
\* listening socket is released and no connection is left; the callback
\* registered by the signal handler then calls process.exit(0).
EmitCloseIfDrained(s) ==
  IF ~s.listening /\ s.connections = 0 /\ s.closeListeners > 0
    THEN [s EXCEPT !.exited = TRUE, !.exitCode = 0]
    ELSE s

\* Faulty variant of OnSignal: the force-exit timer is not armed.
OnSignalNoTimer(s, signal) ==
  EmitCloseIfDrained(
    [ServerClose(s) EXCEPT
       !.signals = Append(@, signal),
       !.signalledAt = IF s.signals = << >> THEN s.clock ELSE @])

\* The handler of SIGINT and SIGTERM: server.close(() => process.exit(0))
\* and setTimeout(() => process.exit(1), 10000).unref().
OnSignal(s, signal) ==
  EmitCloseIfDrained(
    [ServerClose(s) EXCEPT
       !.timers = @ \cup {s.clock + GracePeriod},
       !.signals = Append(@, signal),
       !.signalledAt = IF s.signals = << >> THEN s.clock ELSE @])

\* The log events of the shutdown carry type 'server'.
ServerEvent(level) == LogEvent(0, "server", level, EmptyStr, 0)

\* A client connects to the listening server and sends a request.
Accept ==
  /\ ~srv.exited
  /\ srv.listening
  /\ srv.connections < MaxConnections
  /\ srv' = [srv EXCEPT !.connections = @ + 1]
  /\ UNCHANGED <<cfg, req, res, pc, ctx, log, flt>>

\* A request in flight is answered and its connection ends; the last one
\* of a closing server lets 'close' be emitted.
ConnectionEnd ==
  /\ ~srv.exited
  /\ srv.connections > 0
  /\ LET s == EmitCloseIfDrained([srv EXCEPT !.connections = @ - 1])
     IN /\ srv' = s
        /\ log' = IF s.exited THEN Emit(log, ServerEvent("info")) ELSE log
  /\ UNCHANGED <<cfg, req, res, pc, ctx, flt>>

\* SIGINT or SIGTERM is delivered and its handler runs.
Signal(signal) ==
  /\ ~srv.exited
  /\ Len(srv.signals) < MaxSignals
  /\ srv.clock <= MaxSignalClock
  /\ LET s == OnSignal(srv, signal)
         announced == Emit(log, ServerEvent("info"))
     IN /\ srv' = s
        /\ log' = IF s.exited THEN Emit(announced, ServerEvent("info"))
                  ELSE announced
  /\ UNCHANGED <<cfg, req, res, pc, ctx, flt>>

\* A force-exit timer that is due fires: process.exit(1).
TimerFire ==
  /\ ~srv.exited
  /\ \E deadline \in srv.timers : deadline <= srv.clock
  /\ srv' = [srv EXCEPT !.exited = TRUE, !.exitCode = 1]
  /\ log' = Emit(log, ServerEvent("error"))
  /\ UNCHANGED <<cfg, req, res, pc, ctx, flt>>

\* A second passes.
Tick ==
  /\ ~srv.exited
  /\ srv.clock < MaxSignalClock + GracePeriod
  /\ srv' = [srv EXCEPT !.clock = @ + 1]
  /\ UNCHANGED <<cfg, req, res, pc, ctx, log, flt>>

\* One request goes through the pipeline; the header filter and the
\* server's shutdown are not exercised.
Init == InitWith({1}) /\ srv = ServerIdle /\ flt = FilterIdle

Next ==
  \E r \in Reqs :
    \/ requestLogger(r)
    \/ honoAdapterCall(r)
    \/ honoAdapterResume(r)
    \/ handlerRespond(r)
    \/ handlerFail(r)
    \/ handlerEndAgain(r)
    \/ handlerFailAfterEnd(r)
    \/ errorHandler(r)

Spec == Init /\ [][Next]_vars

\* The pipeline with a logger that can raise in requestLogger.
NextLogFault ==
  \/ Next
  \/ \E r \in Reqs : requestLoggerLogFault(r)
  \/ \E r \in Reqs : handlerRespondLogFault(r)

LogFaultSpec == Init /\ [][NextLogFault]_vars

\* The pipeline with a downstream continuation that can raise from inside
\* next().
NextRaising ==
  \/ Next
  \/ \E r \in Reqs : honoAdapterResumeNextRaises(r)

RaisingNextSpec == Init /\ [][NextRaising]_vars

\* The configuration of local development: NODE_ENV is not 'production'.
LocalConfig ==
  [isProduction |-> FALSE, nodeEnvProduction |-> FALSE,
   allowedOrigins |-> {Star}]

\* The local server listens (the branch NODE_ENV !== 'production'); no
\* request is in the pipeline.
InitShutdown ==
  /\ InitWith({})
  /\ cfg = LocalConfig
  /\ srv = ServerListening
  /\ flt = FilterIdle

NextShutdown ==
  \/ Accept
  \/ ConnectionEnd
  \/ \E signal \in Signals : Signal(signal)
  \/ TimerFire
  \/ Tick

\* Time passes and the event loop runs a timer that is due.
ShutdownSpec ==
  InitShutdown /\ [][NextShutdown]_vars /\ WF_vars(Tick) /\ WF_vars(TimerFire)

(* ------------------------------------------------------------------ *)
(* Properties                                                          *)
(* ------------------------------------------------------------------ *)

\* The indices of the log events request r's handling emitted, by type.
EventsOf(r, types) ==
  {i \in DOMAIN log : log[i].by = r /\ log[i].type \in types}

ResponseEvents(r) == EventsOf(r, {"response"})

\* The terminal events: the logger's 'response' event and errorHandler's
\* 'Request error' event.
TerminalEvents(r) == EventsOf(r, {"response", "error"})

\* requestLogger has run for r.
Logged(r) == res[r].endPatched

\* The adapter has finished with r.
AdapterDone(r) == pc[r] \in {"route", "responded", "errorHandler", "done"}

\* Whether the configuration allows the request's Origin header.
OriginAllowed(r) ==
  \/ Star \in cfg.allowedOrigins
  \/ /\ "origin" \in DOMAIN req[r].headers
     /\ req[r].headers["origin"] \in cfg.allowedOrigins

\* C1: every request that passed through requestLogger has exactly one
\* 'response' event once res.end has been invoked, and never more than one,
\* however often res.end is invoked.
C1_ExactlyOneResponseEvent ==
  \A r \in Reqs :
    Logged(r) =>
      /\ Cardinality(ResponseEvents(r)) <= 1
      /\ res[r].endCalls >= 1 => Cardinality(ResponseEvents(r)) = 1

\* C2: a request whose failure went through errorHandler has exactly one
\* terminal log event and its response was finalized exactly once.
C2_OneTerminalEventOnFailure ==
  \A r \in Reqs :
    ctx[r].handled =>
      /\ Cardinality(TerminalEvents(r)) = 1
      /\ res[r].endCalls = 1

\* C3: whichever path finalized the response of a request that entered
\* requestLogger (a route handler, the adapter's preflight answer or
\* errorHandler), a 'response' event of that request with the status that
\* was sent has been emitted.
C3_HookFiresOnEveryPath ==
  \A r \in Reqs :
    (Logged(r) /\ res[r].finished) =>
      /\ res[r].finalizedBy \in {"handler", "preflight", "errorHandler"}
      /\ \E i \in ResponseEvents(r) :
           /\ log[i].status = res[r].wireStatus
           /\ log[i].requestId = ctx[r].requestId

\* C3 witness: the preflight answer finalized a response with 204 and its
\* 'response' event is in the log.
C3_Witness ==
  \E r \in Reqs :
    /\ res[r].finalizedBy = "preflight"
    /\ res[r].wireStatus = 204
    /\ \E i \in ResponseEvents(r) : log[i].status = 204

\* C4: an OPTIONS request with an allowed Origin that the adapter has
\* finished with got 204 without a body, carries the evaluator's
\* Access-Control-* headers on the real response, and next was not invoked.
C4_PreflightAnswer ==
  \A r \in Reqs :
    (/\ req[r].method = "OPTIONS"
     /\ OriginAllowed(r)
     /\ ctx[r].evaluated = "returned"
     /\ AdapterDone(r)) =>
      /\ res[r].finished
      /\ res[r].wireStatus = 204
      /\ res[r].body = NoBody
      /\ ctx[r].nextCalls = << >>
      /\ {"access-control-allow-origin", "access-control-allow-methods",
          "access-control-allow-headers", "access-control-max-age",
          "access-control-allow-credentials"} \subseteq DOMAIN res[r].headers

\* C5: with no wildcard in the allowed list, a request whose Origin is not
\* in the list (OPTIONS or not) never has an Access-Control-Allow-Origin
\* header on its response, nor among the headers the evaluator answers with.
C5_NoAllowOriginForOtherOrigins ==
  \A r \in Reqs :
    (Star \notin cfg.allowedOrigins /\ ~OriginAllowed(r)) =>
      /\ "access-control-allow-origin" \notin DOMAIN res[r].headers
      /\ "access-control-allow-origin" \notin DOMAIN ctx[r].shimHeaders

\* C5 witness: a request from an origin outside the list has been through
\* the evaluator and the adapter and was answered.
C5_Witness ==
  \E r \in Reqs :
    /\ Star \notin cfg.allowedOrigins
    /\ Get(req[r].headers, "origin") = OriginEvil
    /\ ctx[r].evaluated = "returned"
    /\ "access-control-allow-credentials" \in DOMAIN ctx[r].shimHeaders
    /\ res[r].finished

\* C6: when the evaluator raised, the adapter called next exactly once, with
\* that failure, the failure went to the error-handling stage, and the
\* adapter neither finalized the response nor called next without an error.
C6_EvaluatorFailureForwarded ==
  \A r \in Reqs :
    (ctx[r].evaluated = "threw" /\ AdapterDone(r)) =>
      /\ ctx[r].nextCalls = <<ctx[r].thrown>>
      /\ ctx[r].thrown # NoError
      /\ ctx[r].err = ctx[r].thrown
      /\ pc[r] = "errorHandler" \/ ctx[r].handled
      /\ res[r].finalizedBy # "preflight"

\* C6 witness: the evaluator raised and the failure waits at errorHandler.
C6_Witness ==
  \E r \in Reqs :
    /\ ctx[r].evaluated = "threw"
    /\ pc[r] = "errorHandler"
    /\ ctx[r].err = ctx[r].thrown

\* C7: after requestLogger the response carries x-request-id: the inbound
\* value when the request carries one, and otherwise a non-empty generated
\* value (an inbound header that is empty carries no id).
C7_RequestIdHeader ==
  \A r \in Reqs :
    Logged(r) =>
      /\ "x-request-id" \in DOMAIN res[r].headers
      /\ Get(req[r].headers, "x-request-id") # EmptyStr =>
           res[r].headers["x-request-id"] = req[r].headers["x-request-id"]
      /\ Get(req[r].headers, "x-request-id") = EmptyStr =>
           res[r].headers["x-request-id"] # EmptyStr

\* C8: errorHandler never raises, and once it has run the response is
\* finalized.
C8_ErrorHandlerNeverThrows ==
  \A r \in Reqs :
    /\ ~ctx[r].threw
    /\ ctx[r].handled => res[r].finished

\* C9: the envelope errorHandler wrote has no details when production mode
\* is signalled either way, and has details with the failure's stack
\* otherwise.
C9_NoDetailsInProduction ==
  \A r \in Reqs :
    (res[r].finalizedBy = "errorHandler") =>
      /\ isProd(cfg) => ~res[r].body.hasDetails
      /\ ~isProd(cfg) =>
           /\ res[r].body.hasDetails
           /\ res[r].body.detailsStack = ctx[r].err.stack

\* The failure's own status hint: status, else statusCode, else none (0).
StatusHint(e) == IF e.status # 0 THEN e.status ELSE e.statusCode

\* C10: errorHandler sets the response status to the failure's status hint
\* (500 without one), and the envelope it writes has that code, the
\* failure's message ('Internal Server Error' without one) and success
\* false; status 404 with 'Not Found' gives 404 and {404, 'Not Found'}.
C10_ErrorMapping ==
  \A r \in Reqs :
    LET e == ctx[r].err
        code == IF StatusHint(e) # 0 THEN StatusHint(e) ELSE 500
    IN /\ ctx[r].handled => res[r].statusCode = code
       /\ (ctx[r].handled /\ ~ctx[r].threw) =>
            /\ res[r].wireStatus = code
            /\ res[r].body.kind = "envelope"
            /\ res[r].body.code = code
            /\ res[r].body.message =
                 (IF e.message # "" THEN e.message ELSE "Internal Server Error")
            /\ res[r].body.success = FALSE
            /\ e = NotFoundError =>
                 /\ res[r].wireStatus = 404
                 /\ res[r].body.code = 404
                 /\ res[r].body.message = "Not Found"

\* C10 witness: errorHandler answered a failure with status 404 and message
\* 'Not Found', and one carrying both hints.
C10_Witness ==
  \E r \in Reqs :
    /\ ctx[r].handled
    /\ ~ctx[r].threw
    /\ ctx[r].err = NotFoundError
    /\ res[r].finalizedBy = "errorHandler"
    /\ res[r].body.code = 404

\* Two requests are in flight at once and their stages interleave: the
\* first carries an x-request-id, the second gets a generated one; the
\* configuration lists its origins, so the evaluator uses c.header.
InitInterleaved ==
  /\ InitWith(Reqs)
  /\ cfg = [LocalConfig EXCEPT !.allowedOrigins = {OriginA}]
  /\ req[1] = Request("GET", {OriginA}, {<<"a", "b", "c", "1", "2", "3">>})
  /\ req[2] \in {Request(m, {OriginA}, {}) : m \in Methods}
  /\ srv = ServerIdle
  /\ flt = FilterIdle

InterleavedSpec == InitInterleaved /\ [][Next]_vars

\* A header set is given to the filter; no request is in the pipeline.
InitFilter ==
  /\ InitWith({})
  /\ cfg = LocalConfig
  /\ srv = ServerIdle
  /\ flt \in {Filter("input", headers) : headers \in HeaderSets}

NextFilter ==
  \/ getFilteredHeadersCall
  \/ getFilteredHeadersAgain

FilterSpec == InitFilter /\ [][NextFilter]_vars

\* A signal has been handled.
Signalled == srv.signals # << >>

\* C11 (state part): after a signal the server does not listen; exit 0
\* happens only with every connection drained and the listening socket
\* closed; the forced exit happens only once the grace period since the
\* first signal has expired, with the drain not complete.
ShutdownSafe ==
  /\ Signalled => ~srv.listening
  /\ (srv.exited /\ srv.exitCode = 0) =>
       Signalled /\ srv.connections = 0 /\ ~srv.listening
  /\ (srv.exited /\ srv.exitCode = 1) =>
       /\ Signalled
       /\ srv.clock >= srv.signalledAt + GracePeriod
       /\ srv.connections > 0
  /\ srv.exited => srv.exitCode \in {0, 1}

\* C11: after a termination signal the server accepts no new request and
\* the process eventually exits, with exit 0 only after the drain and the
\* close, or forced once the grace period has expired; for any number of
\* signals.
C11_GracefulShutdown ==
  /\ []ShutdownSafe
  /\ [][Signalled => srv'.connections <= srv.connections]_vars
  /\ (Signalled ~> srv.exited)

\* C11 witness: two signals were handled with a request in flight that
\* never ended, and the process was forced to exit.
C11_Witness ==
  /\ Len(srv.signals) = 2
  /\ srv.signals[1] # srv.signals[2]
  /\ srv.exited
  /\ srv.exitCode = 1
  /\ srv.connections > 0

\* C12: a logger call of requestLogger that raises does not abort the
\* request: the fault does not become the request's failure, after a fault
\* at the 'request' event res.end is still replaced and the adapter runs,
\* and after a fault at the 'response' event the response is still
\* finalized by that call of res.end.
C12_LogFaultSelfContained ==
  \A r \in Reqs :
    ctx[r].logFault # "no" =>
      /\ ctx[r].err # LoggerFailure
      /\ ctx[r].logFault = "request" =>
           res[r].endPatched /\ pc[r] \notin {"errorHandler", "done"}
      /\ ctx[r].logFault = "response" =>
           res[r].finished /\ res[r].finalizedBy = "handler"

\* C13: the severity of every 'response' event is decided by its status
\* alone (error from 500, warn from 400 to 499, info otherwise), and that
\* status is the one the response was finalized with.
C13_SeverityOfFinalStatus ==
  \A i \in 1..Len(log) :
    log[i].type = "response" =>
      /\ log[i].status >= 500 => log[i].level = "error"
      /\ (log[i].status >= 400 /\ log[i].status < 500) => log[i].level = "warn"
      /\ log[i].status < 400 => log[i].level = "info"
      /\ res[log[i].by].finished
      /\ log[i].status = res[log[i].by].wireStatus

\* C13 witness: a handler answered 500, logged at error severity, after
\* the response object was created with status 200.
C13_Witness ==
  \E i \in 1..Len(log) :
    /\ log[i].type = "response"
    /\ log[i].status = 500
    /\ log[i].level = "error"
    /\ res[log[i].by].finalizedBy = "handler"
    /\ FreshResponse.statusCode = 200

\* The failure of request r was resolved to a 4xx status by errorHandler.
ClientError(r) ==
  /\ ctx[r].handled
  /\ ResolveStatus(ctx[r].err) >= 400
  /\ ResolveStatus(ctx[r].err) < 500

\* C14: a failure resolved to a 4xx status is logged at warn severity and
\* answered with the error envelope, and no error-severity event is
\* emitted for its request.
C14_ClientErrorLoggedAtWarn ==
  \A r \in Reqs :
    (ClientError(r) /\ ~ctx[r].threw) =>
      /\ \E i \in 1..Len(log) :
           log[i].by = r /\ log[i].type = "response" /\ log[i].level = "warn"
      /\ res[r].body = Envelope(cfg, ctx[r].err)
      /\ \A i \in 1..Len(log) : log[i].by = r => log[i].level # "error"

\* The filter has been applied to the header set.
Filtered == flt.stage \in {"once", "twice"}

\* The headers of the input the filter must not redact.
OtherNames ==
  {key \in DOMAIN flt.input :
     Lower(key) # "authorization" /\ Lower(key) # "cookie"
       /\ Lower(key) # "set-cookie"}

\* The output has the names of the input, with '[REDACTED]' for every
\* name that is authorization, cookie or set-cookie in any letter case.
RedactsSensitive ==
  /\ DOMAIN flt.output = DOMAIN flt.input
  /\ \A key \in DOMAIN flt.input \ OtherNames : flt.output[key] = Str(Redacted)

\* C15 as stated: the sensitive headers are redacted and every other
\* header has in the output the value it has in the input.
C15_OthersUnchanged ==
  Filtered =>
    /\ RedactsSensitive
    /\ \A key \in OtherNames : flt.output[key] = flt.input[key]

\* C15 amended: the sensitive headers are redacted and every other header
\* is preserved as one string: a string value unchanged, a multi-valued
\* header as its values joined with ', ', an absent value as ''.
C15_OthersAsOneString ==
  Filtered =>
    /\ RedactsSensitive
    /\ \A key \in OtherNames :
         LET value == flt.input[key]
         IN /\ flt.output[key].t = "string"
            /\ value.t = "string" => flt.output[key] = value
            /\ value.t = "array" =>
                 Text(flt.output[key]) = Join(value.v, <<",", " ">>)
            /\ value.t = "undefined" => Text(flt.output[key]) = EmptyStr

\* C15 witness: a header set with Authorization spelled with a capital, a
\* multi-valued and an absent other header has been filtered.
C15_Witness ==
  /\ Filtered
  /\ DOMAIN flt.input = {"Authorization", "accept", "x-tag"}
  /\ flt.input["Authorization"] = Str(<<"a">>)
  /\ flt.input["accept"] = Arr(<< <<"a">>, <<"b">> >>)
  /\ flt.input["x-tag"] = Undefined
  /\ flt.output["accept"] = Str(<<"a", ",", " ", "b">>)

\* C16: filtering the output of the filter gives that output again.
C16_RedactionIdempotent ==
  flt.stage = "twice" => flt.again = flt.output

\* C16 witness: a header set with a sensitive, a multi-valued and an
\* absent header has been filtered twice.
C16_Witness ==
  /\ flt.stage = "twice"
  /\ \E key \in DOMAIN flt.input : Lower(key) \in sensitiveHeaders
  /\ \E key \in OtherNames : flt.input[key].t = "array"
  /\ \E key \in OtherNames : flt.input[key] = Undefined
  /\ flt.output # flt.input

\* The calls the evaluator has made on the shim of request r.
EvaluatorCalls(r) ==
  IF ctx[r].evaluated = "returned"
    THEN honoCorsCalls(cfg.allowedOrigins, req[r])
    ELSE << >>

\* C17: after the evaluator has returned, every header it set through
\* c.header or through c.res.headers is on the real response with the value
\* it set, and a setter call repeated has the effect of the single call.
C17_ShimForwardsToResponse ==
  \A r \in Reqs :
    LET calls == EvaluatorCalls(r)
        c == Shim(res[r], ctx[r].shimHeaders)
    IN /\ \A name \in DOMAIN ctx[r].shimHeaders :
            Get(res[r].headers, name) = ctx[r].shimHeaders[name]
       /\ \A i \in 1..Len(calls) :
            calls[i].surface = "c.header" =>
              Get(res[r].headers, Lower(calls[i].name)) = calls[i].value
       /\ \A i \in 1..Len(calls) :
            calls[i].surface \in {"c.header", "c.res.headers.set"} =>
              ShimCall(ShimCall(c, calls[i]), calls[i]) = ShimCall(c, calls[i])

\* The adapter answered the preflight of r itself.
AnsweredPreflight(r) ==
  res[r].finished /\ res[r].finalizedBy = "preflight" /\ res[r].wireStatus = 204

\* C18: the adapter produces one outcome and produces it once: it answers
\* 204 (only for OPTIONS with a result from the evaluator), or calls next()
\* or calls next(error); it never calls next twice, and a request that is
\* not OPTIONS whose evaluator returned is passed on with next().
C18_OneOutcomeOnce ==
  \A r \in Reqs :
    /\ Len(ctx[r].nextCalls) <= 1
    /\ AnsweredPreflight(r) =>
         /\ ctx[r].nextCalls = << >>
         /\ req[r].method = "OPTIONS"
         /\ ctx[r].result
    /\ AdapterDone(r) => (AnsweredPreflight(r) \/ Len(ctx[r].nextCalls) = 1)
    /\ (AdapterDone(r) /\ ctx[r].evaluated = "threw") =>
         ctx[r].nextCalls = <<ctx[r].thrown>>
    /\ (AdapterDone(r) /\ ctx[r].evaluated = "returned"
          /\ req[r].method # "OPTIONS") =>
         ctx[r].nextCalls = <<NoError>>
    /\ \A result \in BOOLEAN : AdapterOutcome("GET", "returned", result) = "continue"

\* The position in the log of the first event of the given type emitted
\* for r (0 when there is none).
FirstEvent(r, type) ==
  IF \E i \in 1..Len(log) : log[i].by = r /\ log[i].type = type
    THEN CHOOSE i \in 1..Len(log) :
           /\ log[i].by = r /\ log[i].type = type
           /\ \A j \in 1..(i - 1) : ~(log[j].by = r /\ log[j].type = type)
    ELSE 0

\* C19: with two requests in flight under any interleaving, the request
\* id of a request's 'request' and 'response' events and its x-request-id
\* response header are one value, resolved from that request; and the
\* headers and the status the evaluator sets for a request are on no
\* other request's response.
C19_NoCrossRequestLeak ==
  \A r \in Reqs :
    /\ \A i \in 1..Len(log) :
         (log[i].by = r /\ log[i].type \in {"request", "response"}) =>
           log[i].requestId = Get(res[r].headers, "x-request-id")
    /\ (Logged(r) /\ Get(req[r].headers, "x-request-id") # EmptyStr) =>
         Get(res[r].headers, "x-request-id") = req[r].headers["x-request-id"]
    /\ LET calls == EvaluatorCalls(r)
       IN \A name \in DOMAIN res[r].headers \ {"x-request-id", "content-type"} :
            \E i \in 1..Len(calls) :
              /\ calls[i].surface = "c.header"
              /\ Lower(calls[i].name) = name
              /\ calls[i].value = res[r].headers[name]
    /\ res[r].statusCode = 204 => (req[r].method = "OPTIONS" /\ ctx[r].result)

\* C19 witness: the second request arrived and was answered as a preflight
\* between the 'request' and the 'response' event of the first, which has
\* another request id and the Vary header of its own evaluator run.
C19_Witness ==
  /\ FirstEvent(1, "request") > 0
  /\ FirstEvent(1, "request") < FirstEvent(2, "request")
  /\ FirstEvent(2, "request") < FirstEvent(2, "response")
  /\ FirstEvent(2, "response") < FirstEvent(1, "response")
  /\ log[FirstEvent(1, "response")].requestId
       # log[FirstEvent(2, "response")].requestId
  /\ log[FirstEvent(2, "response")].requestId # EmptyStr
  /\ res[2].wireStatus = 204
  /\ res[1].wireStatus = 200
  /\ "vary" \in DOMAIN res[1].headers
  /\ "vary" \notin DOMAIN res[2].headers

\* C20: within a request, the x-request-id header is set and the one
\* 'request' event emitted before anything downstream of requestLogger
\* happens; no further 'request' event follows; and the 'response' event
\* comes after the 'request' event and is the last event emitted before
\* the original end finalizes the response.
C20_OrderWithinRequest ==
  \A r \in Reqs :
    /\ pc[r] \in {"absent", "requestLogger"} =>
         /\ EventsOf(r, {"request", "response", "error"}) = {}
         /\ ctx[r].evaluated = "no"
         /\ ctx[r].nextCalls = << >>
         /\ ~res[r].finished
    /\ pc[r] \notin {"absent", "requestLogger"} =>
         /\ "x-request-id" \in DOMAIN res[r].headers
         /\ Cardinality(EventsOf(r, {"request"})) = 1
         /\ \A i \in EventsOf(r, {"response", "error"}) :
              FirstEvent(r, "request") < i
    /\ res[r].finished =>
         /\ res[r].endedAt = FirstEvent(r, "response")
         /\ FirstEvent(r, "request") > 0
         /\ FirstEvent(r, "request") < res[r].endedAt

\* C20 witness: errorHandler answered a failed request; the 'request',
\* the 'Request error' and the 'response' event were emitted in this
\* order, and then the original end finalized the response.
C20_Witness ==
  /\ res[1].finished
  /\ res[1].finalizedBy = "errorHandler"
  /\ Len(log) = 3
  /\ log[1].type = "request"
  /\ log[2].type = "error"
  /\ log[3].type = "response"
  /\ res[1].endedAt = 3

====
